---- MODULE Spec2Model ----
(***************************************************************************)
(* Model of src/src/App.jsx: the wallet session controller of the          *)
(* "Farcaster Mini - Contract Creator" page.                                *)
(*                                                                          *)
(* The React state of App is the variables account .. target.  Every async *)
(* handler started by a click is an "attempt": a record holding the        *)
(* handler's closure (chain key, captured bytecode), the await it is        *)
(* suspended on, and the log of the provider / signer requests it issued.   *)
(* One action models one synchronous run of a handler: from a click or the  *)
(* settling of the awaited promise up to the next await or the return.      *)
(*                                                                          *)
(* Text is modelled as sequences of one-character strings wherever the     *)
(* code computes on it (bytecode, chain id hex); messages, URLs, hashes     *)
(* and addresses, which the code only copies, are strings.  The status is   *)
(* a record [text, arg]: the literal part of the message and the            *)
(* interpolated / concatenated part.  Accents of the messages are dropped.  *)
(***************************************************************************)
EXTENDS Integers, Sequences, FiniteSets, TLC

(* ------------------------------ bounds --------------------------------- *)
\* handlers (switch / connect / deploy clicks) in flight at the same time
MaxInFlight == 1
\* chain-change notifications emitted by the wallet and not yet delivered
MaxNotifs == 1
\* chain changes the user makes in the wallet's own UI in one run
MaxWalletChanges == 1
\* handlers in flight at the same time when handlers race each other
RaceSlots == 2

(* --------------------------- program constants -------------------------- *)
CHAINS ==
  [ mainnet |->
      [ chainIdHex    |-> <<"0", "x", "1">>,
        chainIdDec    |-> 1,
        name          |-> "Ethereum Mainnet",
        rpcUrls       |-> <<"https://rpc.ankr.com/eth">>,
        blockExplorer |-> "https://etherscan.io",
        currency      |-> [name |-> "Ether", symbol |-> "ETH", decimals |-> 18] ],
    sepolia |->
      [ chainIdHex    |-> <<"0", "x", "a", "a", "3", "6", "a", "7">>,
        chainIdDec    |-> 11155111,
        name          |-> "Sepolia Testnet",
        rpcUrls       |-> <<"https://rpc.ankr.com/eth_sepolia">>,
        blockExplorer |-> "https://sepolia.etherscan.io",
        currency      |-> [name |-> "Sepolia Ether", symbol |-> "SEP", decimals |-> 18] ] ]

ChainKeys == {"mainnet", "sepolia"}

TEST_BYTECODE == <<"0", "x", "6", "0", "0", "0", "6", "0", "0", "0", "f", "3">>

GAS_LIMIT == 70000

\* the code the wallet uses for "chain not recognised" (err?.code === 4902)
CHAIN_UNKNOWN == 4902

\* bytecode.trim().length < 4
MIN_TRIMMED == 4

(* ------------------------------ messages -------------------------------- *)
NoStatus == [text |-> "", arg |-> ""]
Msg(t) == [text |-> t, arg |-> ""]
MsgWith(t, a) == [text |-> t, arg |-> a]

ST_NO_METAMASK      == "MetaMask non detecte."
ST_SWITCHED         == "Reseau bascule sur ${cfg.name}."
ST_ADDED            == "Reseau ${cfg.name} ajoute et selectionne."
ST_ADD_REFUSED      == "Ajout de reseau refuse dans MetaMask."
ST_SWITCH_REFUSED   == "Changement de reseau refuse dans MetaMask."
ST_INSTALL_METAMASK == "MetaMask n'est pas detecte. Installe-le d'abord."
ST_CONNECTED        == "Wallet connecte."
ST_CONNECT_ERROR    == "Erreur connexion: "
ST_TEST_FILLED      == "Bytecode de test insere (contrat vide). Tu peux deployer."
ST_METAMASK_REQUIRED == "MetaMask requis."
ST_BAD_BYTECODE     == "Colle un creation bytecode valide (0x...), ou clique 'Remplir un bytecode de test'."
ST_PREPARING        == "Preparation de la transaction... verifie MetaMask."
ST_SENT             == "Transaction envoyee. Attente de confirmation..."
ST_DEPLOYED         == "Confirme. Contrat deploye a ${addr}"
ST_NO_ADDRESS       == "Confirme, mais pas d'adresse de contrat (bytecode probablement non-createur)."
ST_ERROR            == "Erreur: "
ST_DISCONNECTED     == "Deconnecte."

(* -------------------------- text computations --------------------------- *)
\* JavaScript white space as far as the modelled inputs contain it
IsSpace(c) == c \in {" ", "\n", "\t"}

RECURSIVE TrimStart(_)
TrimStart(s) ==
  IF s = <<>> THEN <<>>
  ELSE IF IsSpace(Head(s)) THEN TrimStart(Tail(s)) ELSE s

RECURSIVE TrimEnd(_)
TrimEnd(s) ==
  IF s = <<>> THEN <<>>
  ELSE IF IsSpace(s[Len(s)]) THEN TrimEnd(SubSeq(s, 1, Len(s) - 1)) ELSE s

\* String.prototype.trim
Trim(s) == TrimEnd(TrimStart(s))

\* String.prototype.startsWith
StartsWith(s, p) == Len(s) >= Len(p) /\ SubSeq(s, 1, Len(p)) = p

HexPrefix == <<"0", "x">>

HexDigits ==
  <<"0", "1", "2", "3", "4", "5", "6", "7", "8", "9", "a", "b", "c", "d", "e", "f">>

IsHexDigit(c) == \E i \in 1..Len(HexDigits) : HexDigits[i] = c

DigitValue(c) == (CHOOSE i \in 1..Len(HexDigits) : HexDigits[i] = c) - 1

\* the digits parseInt consumes: the longest prefix of hex digits
RECURSIVE DigitRun(_)
DigitRun(s) ==
  IF s = <<>> \/ ~IsHexDigit(Head(s)) THEN <<>>
  ELSE <<Head(s)>> \o DigitRun(Tail(s))

RECURSIVE DigitsValue(_)
DigitsValue(s) ==
  IF s = <<>> THEN 0
  ELSE 16 * DigitsValue(SubSeq(s, 1, Len(s) - 1)) + DigitValue(s[Len(s)])

\* parseInt(hex, 16); the result is <<n>>, or <<>> for NaN
ParseInt16(hex) ==
  LET t    == TrimStart(hex)
      body == IF StartsWith(t, HexPrefix) THEN SubSeq(t, 3, Len(t)) ELSE t
      run  == DigitRun(body)
  IN  IF run = <<>> THEN <<>> ELSE <<DigitsValue(run)>>

(* --------------------------- the environment ---------------------------- *)
\* a chain the wallet can be on that is none of the two profiles (Polygon)
OtherChainHex == <<"0", "x", "8", "9">>

\* the chains the wallet can be on
WalletChains == {CHAINS[k].chainIdHex : k \in ChainKeys} \cup {OtherChainHex}

\* what a rejected request throws: code, message and String(e)
E_REJECTED == [code |-> 4001, message |-> "User rejected the request.",
               str |-> "Error: User rejected the request."]
E_UNKNOWN  == [code |-> CHAIN_UNKNOWN, message |-> "Unrecognized chain ID.",
               str |-> "Error: Unrecognized chain ID."]
E_BARE     == [code |-> 0, message |-> "", str |-> "[object Object]"]

SwitchErrors == {E_REJECTED, E_UNKNOWN}
OtherErrors  == {E_REJECTED, E_BARE}

\* e?.message || String(e)
ErrText(e) == IF e.message # "" THEN e.message ELSE e.str

\* the account lists eth_requestAccounts resolves with
AccountLists == {<<"0xB0B", "0xA11CE">>}

\* hash of the transaction submitted by attempt i, address of its contract
HASHES == <<"0xhash1", "0xhash2", "0xhash3", "0xhash4", "0xhash5">>
ADDRS  == <<"0xaddr1", "0xaddr2", "0xaddr3", "0xaddr4", "0xaddr5">>

\* the receipts tx.wait() resolves with: null, without or with an address
Receipts(i) ==
  { [present |-> FALSE, contractAddress |-> ""],
    [present |-> TRUE,  contractAddress |-> ""],
    [present |-> TRUE,  contractAddress |-> ADDRS[i]] }

\* what the user types or pastes into the bytecode field
PayloadInputs ==
  { <<" ", "6", "0", " ", " ">>,
    <<"6", "0", "0", "0", "6", "0", "0", "0", "f", "3">>,
    <<" ", "0", "x", "6", "0">> }

\* a slot no handler has used yet
Idle ==
  [kind |-> "none", chainKey |-> "", bytecode |-> <<>>, pc |-> "idle",
   reqs |-> <<>>, ret |-> "none", end |-> "", onChain |-> <<>>]

(* -------------------------------- state --------------------------------- *)
VARIABLES
  account,          \* useState(null): <<>> for null, <<address>> otherwise
  status,           \* useState("")
  bytecode,         \* useState("")
  txHash,           \* useState("")
  contractAddress,  \* useState("")
  currentChainId,   \* useState(null): <<>> for null / NaN, <<n>> otherwise
  target,           \* useState("sepolia")
  provider,         \* window.ethereum is present
  phase,            \* "created" (rendered, effect not run), "mounted", "unmounted"
  listener,         \* onChainChanged is registered on the provider
  chainQuery,       \* the startup eth_chainId request: [st, val]
  walletChain,      \* the chain the wallet is on (hex)
  notifs,           \* chainChanged notifications emitted, not yet delivered
  walletChanges,    \* chain changes made in the wallet's own UI so far
  attempts          \* the async handlers: per slot, the one in flight or the last finished

ui == <<account, status, bytecode, txHash, contractAddress, currentChainId, target>>
env == <<provider, phase, listener, chainQuery, walletChain, notifs, walletChanges>>
vars == <<ui, env, attempts>>

Init ==
  /\ account = <<>>
  /\ status = NoStatus
  /\ bytecode = <<>>
  /\ txHash = ""
  /\ contractAddress = ""
  /\ currentChainId = <<>>
  /\ target = "sepolia"
  /\ provider \in BOOLEAN
  /\ phase = "created"
  /\ listener = FALSE
  /\ chainQuery = [st |-> "none", val |-> <<>>]
  /\ walletChain \in WalletChains
  /\ notifs = <<>>
  /\ walletChanges = 0
  /\ attempts = [i \in 1..MaxInFlight |-> Idle]

(* ------------------------------ derived UI ------------------------------ *)
targetCfg == CHAINS[target]

\* mutant: the explorer always follows the selected target
explorerBaseBug == targetCfg.blockExplorer

explorerBase ==
  IF currentChainId = <<CHAINS.sepolia.chainIdDec>> THEN CHAINS.sepolia.blockExplorer
  ELSE IF currentChainId = <<CHAINS.mainnet.chainIdDec>> THEN CHAINS.mainnet.blockExplorer
  ELSE targetCfg.blockExplorer

\* the chain-change handler of the effect: setCurrentChainId(parseInt(hex, 16))
handler(hex) == ParseInt16(hex)

(* --------------------------- chain observation -------------------------- *)
\* useEffect(..., []) on mount
ObserveChain ==
  /\ phase = "created"
  /\ phase' = "mounted"
  /\ IF ~provider
     THEN UNCHANGED <<listener, chainQuery>>
     ELSE /\ chainQuery' = [st |-> "pending", val |-> <<>>]
          /\ listener' = TRUE
  /\ UNCHANGED <<ui, provider, walletChain, notifs, walletChanges, attempts>>

\* the wallet answers eth_chainId with the chain it is on
ChainIdAnswered ==
  /\ chainQuery.st = "pending"
  /\ chainQuery' = [st |-> "answered", val |-> walletChain]
  /\ UNCHANGED <<ui, provider, phase, listener, walletChain, notifs, walletChanges, attempts>>

\* mutant: the answer of the startup query is dropped
ChainIdResolvedBug ==
  /\ chainQuery.st = "answered"
  /\ chainQuery' = [st |-> "done", val |-> <<>>]
  /\ currentChainId' = currentChainId
  /\ UNCHANGED <<account, status, bytecode, txHash, contractAddress, target>>
  /\ UNCHANGED <<provider, phase, listener, walletChain, notifs, walletChanges, attempts>>

\* .then((hex) => handler(hex))
ChainIdResolved ==
  /\ chainQuery.st = "answered"
  /\ chainQuery' = [st |-> "done", val |-> <<>>]
  /\ currentChainId' = handler(chainQuery.val)
  /\ UNCHANGED <<account, status, bytecode, txHash, contractAddress, target>>
  /\ UNCHANGED <<provider, phase, listener, walletChain, notifs, walletChanges, attempts>>

\* .catch(() => {})
ChainIdRejected ==
  /\ chainQuery.st = "pending"
  /\ chainQuery' = [st |-> "done", val |-> <<>>]
  /\ UNCHANGED <<ui, provider, phase, listener, walletChain, notifs, walletChanges, attempts>>

\* the wallet moves to chain hex and notifies the registered listener
CanEmit == ~listener \/ Len(notifs) < MaxNotifs

WalletMovesTo(hex) ==
  /\ walletChain' = hex
  /\ notifs' = IF listener /\ hex # walletChain THEN Append(notifs, hex) ELSE notifs

\* the user changes the chain in the wallet's own UI
WalletChainChanged ==
  /\ provider
  /\ walletChanges < MaxWalletChanges
  /\ CanEmit
  /\ \E hex \in WalletChains \ {walletChain} : WalletMovesTo(hex)
  /\ walletChanges' = walletChanges + 1
  /\ UNCHANGED <<ui, provider, phase, listener, chainQuery, attempts>>

\* onChainChanged(hex)
ChainChangedDelivered ==
  /\ notifs # <<>>
  /\ notifs' = Tail(notifs)
  /\ currentChainId' = IF listener THEN handler(Head(notifs)) ELSE currentChainId
  /\ UNCHANGED <<account, status, bytecode, txHash, contractAddress, target>>
  /\ UNCHANGED <<provider, phase, listener, chainQuery, walletChain, walletChanges, attempts>>

\* mutant: the effect returns no cleanup, the listener stays registered
TeardownBug ==
  /\ phase = "mounted"
  /\ phase' = "unmounted"
  /\ listener' = listener
  /\ UNCHANGED <<ui, provider, chainQuery, walletChain, notifs, walletChanges, attempts>>

\* the cleanup of the effect: removeListener("chainChanged", onChainChanged)
Teardown ==
  /\ phase = "mounted"
  /\ phase' = "unmounted"
  /\ listener' = FALSE
  /\ UNCHANGED <<ui, provider, chainQuery, walletChain, notifs, walletChanges, attempts>>

(* --------------------------- local UI handlers -------------------------- *)
\* the handlers below run on a click, so only while the component is mounted
Clickable == phase = "mounted"

\* <select onChange={(e) => setTarget(e.target.value)}>
SetTarget(k) ==
  /\ Clickable
  /\ target' = k
  /\ UNCHANGED <<account, status, bytecode, txHash, contractAddress, currentChainId>>
  /\ UNCHANGED <<env, attempts>>

\* <textarea onChange={(e) => setBytecode(e.target.value)}>
SetBytecode(b) ==
  /\ Clickable
  /\ bytecode' = b
  /\ UNCHANGED <<account, status, txHash, contractAddress, currentChainId, target>>
  /\ UNCHANGED <<env, attempts>>

\* mutant: filling the test payload also forgets the last deployment
fillTestBytecodeBug ==
  /\ Clickable
  /\ bytecode' = TEST_BYTECODE
  /\ status' = Msg(ST_TEST_FILLED)
  /\ txHash' = ""
  /\ contractAddress' = ""
  /\ UNCHANGED <<account, currentChainId, target>>
  /\ UNCHANGED <<env, attempts>>

fillTestBytecode ==
  /\ Clickable
  /\ bytecode' = TEST_BYTECODE
  /\ status' = Msg(ST_TEST_FILLED)
  /\ UNCHANGED <<account, txHash, contractAddress, currentChainId, target>>
  /\ UNCHANGED <<env, attempts>>

\* mutant: the reset forgets the transaction hash
ResetBug ==
  /\ Clickable
  /\ bytecode' = <<>>
  /\ status' = NoStatus
  /\ contractAddress' = ""
  /\ UNCHANGED <<account, txHash, currentChainId, target>>
  /\ UNCHANGED <<env, attempts>>

\* the "Reinitialiser" button
Reset ==
  /\ Clickable
  /\ bytecode' = <<>>
  /\ status' = NoStatus
  /\ txHash' = ""
  /\ contractAddress' = ""
  /\ UNCHANGED <<account, currentChainId, target>>
  /\ UNCHANGED <<env, attempts>>

\* mutant: the disconnect also clears the deploy results, as the reset does
DisconnectBug ==
  /\ Clickable
  /\ account # <<>>
  /\ account' = <<>>
  /\ status' = Msg(ST_DISCONNECTED)
  /\ txHash' = ""
  /\ contractAddress' = ""
  /\ UNCHANGED <<bytecode, currentChainId, target>>
  /\ UNCHANGED <<env, attempts>>

\* the "Deconnecter" button, rendered only while account is truthy
Disconnect ==
  /\ Clickable
  /\ account # <<>>
  /\ account' = <<>>
  /\ status' = Msg(ST_DISCONNECTED)
  /\ UNCHANGED <<bytecode, txHash, contractAddress, currentChainId, target>>
  /\ UNCHANGED <<env, attempts>>

(* ------------------------------- attempts ------------------------------- *)
\* a provider / signer request: what was asked, and how it settled
Request(m, p) ==
  [method |-> m, params |-> p, res |-> "pending", code |-> 0, value |-> <<>>]

\* mutant: the switch request always carries the Sepolia chain id
SwitchRequestBug(cfg) ==
  Request("wallet_switchEthereumChain", [chainId |-> CHAINS.sepolia.chainIdHex])

SwitchRequest(cfg) ==
  Request("wallet_switchEthereumChain", [chainId |-> cfg.chainIdHex])

AddRequest(cfg) ==
  Request("wallet_addEthereumChain",
          [ chainId           |-> cfg.chainIdHex,
            chainName         |-> cfg.name,
            nativeCurrency    |-> cfg.currency,
            rpcUrls           |-> cfg.rpcUrls,
            blockExplorerUrls |-> <<cfg.blockExplorer>> ])

AccountsRequest == Request("eth_requestAccounts", [none |-> TRUE])

SignerRequest == Request("getSigner", [none |-> TRUE])

\* mutant: the prefix is added without looking at the payload
dataHexBug(b) == HexPrefix \o b

\* bytecode.startsWith("0x") ? bytecode : "0x" + bytecode
dataHex(b) == IF StartsWith(b, HexPrefix) THEN b ELSE HexPrefix \o b

SendRequest(b) ==
  Request("sendTransaction", [data |-> dataHex(b), gasLimit |-> GAS_LIMIT])

WaitRequest(h) == Request("wait", [hash |-> h])

\* the last request of a log resolves with value v
Resolved(reqs, v) ==
  [reqs EXCEPT ![Len(reqs)] = [@ EXCEPT !.res = "ok", !.value = <<v>>]]

\* the last request of a log rejects with error e
Rejected(reqs, e) ==
  [reqs EXCEPT ![Len(reqs)] = [@ EXCEPT !.res = "rejected", !.code = e.code]]

\* a handler that returned in its first synchronous run
Returned(kind, key, b, e) ==
  [kind |-> kind, chainKey |-> key, bytecode |-> b, pc |-> "done",
   reqs |-> <<>>, ret |-> IF e = "no-provider" /\ kind = "ensureNetwork" THEN "false" ELSE "none",
   end |-> e, onChain |-> <<>>]

\* a handler suspended on the switch request of ensureNetwork(key)
Switching(kind, key, b) ==
  [kind |-> kind, chainKey |-> key, bytecode |-> b, pc |-> "switch",
   reqs |-> <<SwitchRequest(CHAINS[key])>>, ret |-> "pending",
   end |-> "", onChain |-> <<>>]

\* the handler of a click runs in the first slot that holds no handler in flight
Free(i) == attempts[i].pc \in {"idle", "done"}

CanStart == Clickable /\ \E i \in DOMAIN attempts : Free(i)

Slot == CHOOSE i \in DOMAIN attempts : Free(i) /\ \A j \in 1..(i - 1) : ~Free(j)

Start(a) == [attempts EXCEPT ![Slot] = a]

Running(i, pc) == i \in DOMAIN attempts /\ attempts[i].pc = pc

\* mutant: Deploy follows the selected target instead of forcing the test network
DeployChainKeyBug == target

\* the network Deploy forces before it submits
DeployChainKey == "sepolia"

\* mutant: the length floor is applied to the untrimmed payload
BadBytecodeBug(b) == b = <<>> \/ Len(b) < MIN_TRIMMED

\* !bytecode || bytecode.trim().length < 4
BadBytecode(b) == b = <<>> \/ Len(Trim(b)) < MIN_TRIMMED

(* ---------------------------- ensureNetwork ----------------------------- *)
\* mutant: every coded rejection of the switch is answered by adding the chain
IsUnknownChainBug(err) == err.code # 0

\* err?.code === 4902
IsUnknownChain(err) == err.code = CHAIN_UNKNOWN

\* ensureNetwork returned true: the caller goes on to its next await
NetworkOk(a, reqs, e) ==
  CASE a.kind = "ensureNetwork" ->
         [a EXCEPT !.pc = "done", !.reqs = reqs, !.ret = "true", !.end = e]
    [] a.kind = "connectWallet" ->
         [a EXCEPT !.pc = "accounts", !.reqs = Append(reqs, AccountsRequest), !.ret = "true"]
    [] a.kind = "deployContract" ->
         [a EXCEPT !.pc = "signer", !.reqs = Append(reqs, SignerRequest), !.ret = "true"]

\* mutant: the caller ignores the false result and goes on (no "if (!ok) return")
NetworkFailedBug(a, reqs, e) == [NetworkOk(a, reqs, e) EXCEPT !.ret = "false"]

\* ensureNetwork returned false: connectWallet and deployContract return (if (!ok) return)
NetworkFailed(a, reqs, e) ==
  [a EXCEPT !.pc = "done", !.reqs = reqs, !.ret = "false",
            !.end = IF a.kind = "ensureNetwork" THEN e ELSE "network-failed"]

\* the "Basculer sur ..." button: ensureNetwork(target)
ClickSwitch ==
  /\ CanStart
  /\ IF ~provider
     THEN /\ status' = Msg(ST_NO_METAMASK)
          /\ attempts' = Start(Returned("ensureNetwork", target, <<>>, "no-provider"))
     ELSE /\ status' = status
          /\ attempts' = Start(Switching("ensureNetwork", target, <<>>))
  /\ UNCHANGED <<account, bytecode, txHash, contractAddress, currentChainId, target>>
  /\ UNCHANGED env

\* wallet_switchEthereumChain resolves
SwitchResolved(i) ==
  /\ Running(i, "switch")
  /\ CanEmit
  /\ LET a   == attempts[i]
         cfg == CHAINS[a.chainKey]
     IN  /\ WalletMovesTo(cfg.chainIdHex)
         /\ status' = MsgWith(ST_SWITCHED, cfg.name)
         /\ attempts' = [attempts EXCEPT ![i] = NetworkOk(a, Resolved(a.reqs, "null"), "switched")]
  /\ UNCHANGED <<account, bytecode, txHash, contractAddress, currentChainId, target>>
  /\ UNCHANGED <<provider, phase, listener, chainQuery, walletChanges>>

\* wallet_switchEthereumChain rejects with err
SwitchRejected(i, err) ==
  /\ Running(i, "switch")
  /\ LET a    == attempts[i]
         cfg  == CHAINS[a.chainKey]
         reqs == Rejected(a.reqs, err)
     IN  IF IsUnknownChain(err)
         THEN /\ status' = status
              /\ attempts' = [attempts EXCEPT ![i] =
                                [a EXCEPT !.pc = "add", !.reqs = Append(reqs, AddRequest(cfg))]]
         ELSE /\ status' = Msg(ST_SWITCH_REFUSED)
              /\ attempts' = [attempts EXCEPT ![i] = NetworkFailed(a, reqs, "switch-refused")]
  /\ UNCHANGED <<account, bytecode, txHash, contractAddress, currentChainId, target>>
  /\ UNCHANGED env

\* mutant: the success message names the selected target, not the requested network
AddResolvedBug(i) ==
  /\ Running(i, "add")
  /\ CanEmit
  /\ LET a   == attempts[i]
         cfg == CHAINS[a.chainKey]
     IN  /\ WalletMovesTo(cfg.chainIdHex)
         /\ status' = MsgWith(ST_ADDED, targetCfg.name)
         /\ attempts' = [attempts EXCEPT ![i] = NetworkOk(a, Resolved(a.reqs, "null"), "added")]
  /\ UNCHANGED <<account, bytecode, txHash, contractAddress, currentChainId, target>>
  /\ UNCHANGED <<provider, phase, listener, chainQuery, walletChanges>>

\* wallet_addEthereumChain resolves: the wallet has added and selected the chain
AddResolved(i) ==
  /\ Running(i, "add")
  /\ CanEmit
  /\ LET a   == attempts[i]
         cfg == CHAINS[a.chainKey]
     IN  /\ WalletMovesTo(cfg.chainIdHex)
         /\ status' = MsgWith(ST_ADDED, cfg.name)
         /\ attempts' = [attempts EXCEPT ![i] = NetworkOk(a, Resolved(a.reqs, "null"), "added")]
  /\ UNCHANGED <<account, bytecode, txHash, contractAddress, currentChainId, target>>
  /\ UNCHANGED <<provider, phase, listener, chainQuery, walletChanges>>

\* mutant: the add request is not wrapped in its own try / catch
AddRejectedBug(i, e2) ==
  /\ Running(i, "add")
  /\ LET a == attempts[i]
     IN  /\ status' = status
         /\ attempts' = [attempts EXCEPT ![i] =
                           [a EXCEPT !.pc = "done", !.reqs = Rejected(a.reqs, e2),
                                     !.ret = "none", !.end = "uncaught"]]
  /\ UNCHANGED <<account, bytecode, txHash, contractAddress, currentChainId, target>>
  /\ UNCHANGED env

\* wallet_addEthereumChain rejects with e2
AddRejected(i, e2) ==
  /\ Running(i, "add")
  /\ LET a == attempts[i]
     IN  /\ status' = Msg(ST_ADD_REFUSED)
         /\ attempts' = [attempts EXCEPT ![i] =
                           NetworkFailed(a, Rejected(a.reqs, e2), "add-refused")]
  /\ UNCHANGED <<account, bytecode, txHash, contractAddress, currentChainId, target>>
  /\ UNCHANGED env

(* ---------------------------- connectWallet ----------------------------- *)
\* the "Connecter le wallet" button, rendered only while account is falsy
connectWallet ==
  /\ CanStart
  /\ account = <<>>
  /\ IF ~provider
     THEN /\ status' = Msg(ST_INSTALL_METAMASK)
          /\ attempts' = Start(Returned("connectWallet", target, <<>>, "no-provider"))
     ELSE /\ status' = status
          /\ attempts' = Start(Switching("connectWallet", target, <<>>))
  /\ UNCHANGED <<account, bytecode, txHash, contractAddress, currentChainId, target>>
  /\ UNCHANGED env

\* eth_requestAccounts resolves with accounts
AccountsResolved(i, accounts) ==
  /\ Running(i, "accounts")
  /\ account' = <<accounts[1]>>
  /\ status' = Msg(ST_CONNECTED)
  /\ attempts' = [attempts EXCEPT ![i] =
                    [@ EXCEPT !.pc = "done", !.reqs = Resolved(@, accounts), !.end = "connected"]]
  /\ UNCHANGED <<bytecode, txHash, contractAddress, currentChainId, target>>
  /\ UNCHANGED env

\* eth_requestAccounts rejects with e
AccountsRejected(i, e) ==
  /\ Running(i, "accounts")
  /\ status' = MsgWith(ST_CONNECT_ERROR, ErrText(e))
  /\ attempts' = [attempts EXCEPT ![i] =
                    [@ EXCEPT !.pc = "done", !.reqs = Rejected(@, e),
                              !.end = "connect-error"]]
  /\ UNCHANGED <<account, bytecode, txHash, contractAddress, currentChainId, target>>
  /\ UNCHANGED env

(* ---------------------------- deployContract ---------------------------- *)
\* receipt?.contractAddress || ""
ReceiptAddress(receipt) ==
  IF receipt.present /\ receipt.contractAddress # "" THEN receipt.contractAddress ELSE ""

\* the "Deployer le contrat" button, up to the first await
deployContract ==
  /\ CanStart
  /\ txHash' = ""
  /\ contractAddress' = ""
  /\ IF ~provider
     THEN /\ status' = Msg(ST_METAMASK_REQUIRED)
          /\ attempts' = Start(Returned("deployContract", DeployChainKey, bytecode, "no-provider"))
     ELSE IF BadBytecode(bytecode)
     THEN /\ status' = Msg(ST_BAD_BYTECODE)
          /\ attempts' = Start(Returned("deployContract", DeployChainKey, bytecode, "invalid-input"))
     ELSE /\ status' = NoStatus
          /\ attempts' = Start(Switching("deployContract", DeployChainKey, bytecode))
  /\ UNCHANGED <<account, bytecode, currentChainId, target>>
  /\ UNCHANGED env

\* mutant: Deploy stores the signer it obtained as the connected account
SignerResolvedBug(i) ==
  /\ Running(i, "signer")
  /\ status' = Msg(ST_PREPARING)
  /\ account' = <<"0xB0B">>
  /\ attempts' = [attempts EXCEPT ![i] =
                    [@ EXCEPT !.pc = "send",
                              !.reqs = Append(Resolved(@, "signer"), SendRequest(attempts[i].bytecode))]]
  /\ UNCHANGED <<bytecode, txHash, contractAddress, currentChainId, target>>
  /\ UNCHANGED env

\* provider.getSigner() resolves: the transaction is built and submitted
SignerResolved(i) ==
  /\ Running(i, "signer")
  /\ status' = Msg(ST_PREPARING)
  /\ attempts' = [attempts EXCEPT ![i] =
                    [@ EXCEPT !.pc = "send",
                              !.reqs = Append(Resolved(@, "signer"), SendRequest(attempts[i].bytecode))]]
  /\ UNCHANGED <<account, bytecode, txHash, contractAddress, currentChainId, target>>
  /\ UNCHANGED env

\* signer.sendTransaction resolves with tx: the wallet has broadcast it on its chain
SendResolved(i) ==
  /\ Running(i, "send")
  /\ txHash' = HASHES[i]
  /\ status' = Msg(ST_SENT)
  /\ attempts' = [attempts EXCEPT ![i] =
                    [@ EXCEPT !.pc = "wait",
                              !.reqs = Append(Resolved(@, HASHES[i]), WaitRequest(HASHES[i])),
                              !.onChain = <<walletChain>>]]
  /\ UNCHANGED <<account, bytecode, contractAddress, currentChainId, target>>
  /\ UNCHANGED env

\* mutant: a receipt without a contract address is reported as an error
WaitResolvedBug(i, receipt) ==
  /\ Running(i, "wait")
  /\ LET addr == ReceiptAddress(receipt)
     IN  /\ contractAddress' = addr
         /\ status' = IF addr # "" THEN MsgWith(ST_DEPLOYED, addr)
                       ELSE MsgWith(ST_ERROR, "no contract address")
         /\ attempts' = [attempts EXCEPT ![i] =
                           [@ EXCEPT !.pc = "done", !.reqs = Resolved(@, receipt),
                                     !.end = IF addr # "" THEN "tx-confirmed-with-address"
                                             ELSE "tx-failed"]]
  /\ UNCHANGED <<account, bytecode, txHash, currentChainId, target>>
  /\ UNCHANGED env

\* tx.wait() resolves with receipt
WaitResolved(i, receipt) ==
  /\ Running(i, "wait")
  /\ LET addr == ReceiptAddress(receipt)
     IN  /\ contractAddress' = addr
         /\ status' = IF addr # "" THEN MsgWith(ST_DEPLOYED, addr) ELSE Msg(ST_NO_ADDRESS)
         /\ attempts' = [attempts EXCEPT ![i] =
                           [@ EXCEPT !.pc = "done", !.reqs = Resolved(@, receipt),
                                     !.end = IF addr # "" THEN "tx-confirmed-with-address"
                                             ELSE "tx-confirmed-no-address"]]
  /\ UNCHANGED <<account, bytecode, txHash, currentChainId, target>>
  /\ UNCHANGED env

\* mutant: a rejected submission is reported and submitted again
DeployRejectedRetry(i, e) ==
  /\ i \in DOMAIN attempts
  /\ attempts[i].pc \in {"signer", "send", "wait"}
  /\ status' = MsgWith(ST_ERROR, ErrText(e))
  /\ attempts' = IF attempts[i].pc = "send" THEN attempts
                 ELSE [attempts EXCEPT ![i] =
                         [@ EXCEPT !.pc = "done", !.reqs = Rejected(@, e),
                                   !.end = IF attempts[i].pc = "wait" THEN "tx-failed"
                                           ELSE attempts[i].pc \o "-failed"]]
  /\ UNCHANGED <<account, bytecode, txHash, contractAddress, currentChainId, target>>
  /\ UNCHANGED env

\* mutant: the catch block also forgets the transaction
DeployRejectedBug(i, e) ==
  /\ i \in DOMAIN attempts
  /\ attempts[i].pc \in {"signer", "send", "wait"}
  /\ status' = MsgWith(ST_ERROR, ErrText(e))
  /\ txHash' = ""
  /\ attempts' = [attempts EXCEPT ![i] =
                    [@ EXCEPT !.pc = "done", !.reqs = Rejected(@, e),
                              !.end = IF attempts[i].pc = "wait" THEN "tx-failed"
                                      ELSE attempts[i].pc \o "-failed"]]
  /\ UNCHANGED <<account, bytecode, contractAddress, currentChainId, target>>
  /\ UNCHANGED env

\* getSigner, sendTransaction or wait rejects with e: catch (e) of deployContract
DeployRejected(i, e) ==
  /\ i \in DOMAIN attempts
  /\ attempts[i].pc \in {"signer", "send", "wait"}
  /\ status' = MsgWith(ST_ERROR, ErrText(e))
  /\ attempts' = [attempts EXCEPT ![i] =
                    [@ EXCEPT !.pc = "done", !.reqs = Rejected(@, e),
                              !.end = IF attempts[i].pc = "wait" THEN "tx-failed"
                                      ELSE attempts[i].pc \o "-failed"]]
  /\ UNCHANGED <<account, bytecode, txHash, contractAddress, currentChainId, target>>
  /\ UNCHANGED env

(* ---------------------------- specification ----------------------------- *)
Slots == DOMAIN attempts

\* the mount effect and the delivery of chain-change notifications
NextMount ==
  \/ ObserveChain
  \/ ChainChangedDelivered

\* the startup query, the wallet's own chain changes and the unmount
NextObserve ==
  \/ ChainIdAnswered
  \/ ChainIdResolved
  \/ ChainIdRejected
  \/ WalletChainChanged
  \/ Teardown

NextLocal ==
  \/ \E k \in ChainKeys : SetTarget(k)
  \/ \E b \in PayloadInputs : SetBytecode(b)
  \/ fillTestBytecode
  \/ Reset
  \/ Disconnect

NextHandlers ==
  \/ ClickSwitch
  \/ \E i \in Slots : SwitchResolved(i)
  \/ \E i \in Slots, err \in SwitchErrors : SwitchRejected(i, err)
  \/ \E i \in Slots : AddResolved(i)
  \/ \E i \in Slots, e2 \in OtherErrors : AddRejected(i, e2)
  \/ connectWallet
  \/ \E i \in Slots, accounts \in AccountLists : AccountsResolved(i, accounts)
  \/ \E i \in Slots, e \in OtherErrors : AccountsRejected(i, e)
  \/ deployContract
  \/ \E i \in Slots : SignerResolved(i)
  \/ \E i \in Slots : SendResolved(i)
  \/ \E i \in Slots : \E receipt \in Receipts(i) : WaitResolved(i, receipt)
  \/ \E i \in Slots, e \in OtherErrors : DeployRejected(i, e)

\* the whole page: observer, local controls and async handlers
Next == NextMount \/ NextObserve \/ NextLocal \/ NextHandlers

\* The session without the startup query, the wallet's own chain changes and the
\* unmount.  Those actions write chainQuery, walletChain, notifs, walletChanges,
\* phase, listener and (through the queue) currentChainId only.  No handler
\* reads chainQuery or currentChainId; walletChain is read only to decide whether
\* a notification is emitted and to record the chain a transaction went out on;
\* phase only disables clicks.  The request logs, status, account, payload, hash
\* and address of SessionSpec are therefore those of the whole page.
NextSession == NextMount \/ NextLocal \/ NextHandlers

Spec == Init /\ [][Next]_vars

SessionSpec == Init /\ [][NextSession]_vars

\* the chain observer alone, with every action that writes what explorerBase
\* reads (currentChainId, target)
NextChain == NextMount \/ NextObserve \/ \E k \in ChainKeys : SetTarget(k)

ChainSpec == Init /\ [][NextChain]_vars

\* the session together with the startup query of the chain observer
NextStartup ==
  \/ ChainIdAnswered
  \/ ChainIdResolved
  \/ ChainIdRejected

StartupSpec == Init /\ [][NextSession \/ NextStartup]_vars

\* the provider settles the pending request of the handler in slot i
Settle(i) ==
  \/ SwitchResolved(i)
  \/ \E err \in SwitchErrors : SwitchRejected(i, err)
  \/ AddResolved(i)
  \/ \E e2 \in OtherErrors : AddRejected(i, e2)
  \/ \E accounts \in AccountLists : AccountsResolved(i, accounts)
  \/ \E e \in OtherErrors : AccountsRejected(i, e)
  \/ SignerResolved(i)
  \/ SendResolved(i)
  \/ \E receipt \in Receipts(i) : WaitResolved(i, receipt)
  \/ \E e \in OtherErrors : DeployRejected(i, e)

\* the session with a provider that settles every request it was sent: each
\* await of a handler resumes once its promise resolves or rejects
FairSessionSpec == SessionSpec /\ \A i \in 1..MaxInFlight : WF_vars(Settle(i))

\* a page with a provider on which two handlers can be in flight together
InitRace ==
  /\ account = <<>>
  /\ status = NoStatus
  /\ bytecode = <<>>
  /\ txHash = ""
  /\ contractAddress = ""
  /\ currentChainId = <<>>
  /\ target = "sepolia"
  /\ provider = TRUE
  /\ phase = "created"
  /\ listener = FALSE
  /\ chainQuery = [st |-> "none", val |-> <<>>]
  /\ walletChain = CHAINS.sepolia.chainIdHex
  /\ notifs = <<>>
  /\ walletChanges = 0
  /\ attempts = [i \in 1..RaceSlots |-> Idle]

\* the clicks and settlements of racing handlers, with a wallet that grants
\* every request: the switch button, the deploy button, the target select, the
\* test payload, the wallet's own chain change
NextRace ==
  \/ ObserveChain
  \/ ChainChangedDelivered
  \/ WalletChainChanged
  \/ \E k \in ChainKeys : SetTarget(k)
  \/ fillTestBytecode
  \/ ClickSwitch
  \/ deployContract
  \/ \E i \in Slots : SwitchResolved(i)
  \/ \E i \in Slots : SignerResolved(i)
  \/ \E i \in Slots : SendResolved(i)
  \/ \E i \in Slots : \E receipt \in Receipts(i) : WaitResolved(i, receipt)

RaceSpec == InitRace /\ [][NextRace]_vars

TypeOK ==
  /\ account \in {<<>>} \cup {<<l[1]>> : l \in AccountLists}
  /\ target \in ChainKeys
  /\ DOMAIN attempts = 1..MaxInFlight
  /\ Len(notifs) <= MaxNotifs

(* ------------------------ vocabulary of the claims ---------------------- *)
SEPOLIA_HEX == <<"0", "x", "a", "a", "3", "6", "a", "7">>
MAINNET_HEX == <<"0", "x", "1">>

\* the chain id hex and the full profile the documentation declares per key
DeclaredHex(key) == IF key = "mainnet" THEN MAINNET_HEX ELSE SEPOLIA_HEX

DeclaredProfile(key) ==
  IF key = "mainnet"
  THEN [ chainId           |-> MAINNET_HEX,
         chainName         |-> "Ethereum Mainnet",
         nativeCurrency    |-> [name |-> "Ether", symbol |-> "ETH", decimals |-> 18],
         rpcUrls           |-> <<"https://rpc.ankr.com/eth">>,
         blockExplorerUrls |-> <<"https://etherscan.io">> ]
  ELSE [ chainId           |-> SEPOLIA_HEX,
         chainName         |-> "Sepolia Testnet",
         nativeCurrency    |-> [name |-> "Sepolia Ether", symbol |-> "SEP", decimals |-> 18],
         rpcUrls           |-> <<"https://rpc.ankr.com/eth_sepolia">>,
         blockExplorerUrls |-> <<"https://sepolia.etherscan.io">> ]

IsSwitch(r) == r.method = "wallet_switchEthereumChain"
IsAdd(r)    == r.method = "wallet_addEthereumChain"

\* the positions of the requests of a log that satisfy P
Where(reqs, P(_)) == {n \in 1..Len(reqs) : P(reqs[n])}

IsSend(r)     == r.method = "sendTransaction"
IsAccounts(r) == r.method = "eth_requestAccounts"

\* before position n, the log holds a successful EnsureNetwork for chain hex:
\* a switch to hex that resolved, or one that failed with 4902 followed by an
\* add of hex that resolved
EnsuredBefore(reqs, n, hex) ==
  \E m \in 1..(n - 1) :
    /\ IsSwitch(reqs[m])
    /\ reqs[m].params.chainId = hex
    /\ \/ reqs[m].res = "ok"
       \/ /\ reqs[m].res = "rejected"
          /\ reqs[m].code = 4902
          /\ m + 1 < n
          /\ IsAdd(reqs[m + 1])
          /\ reqs[m + 1].params.chainId = hex
          /\ reqs[m + 1].res = "ok"

DeployAttempts  == {i \in DOMAIN attempts : attempts[i].kind = "deployContract"}
ConnectAttempts == {i \in DOMAIN attempts : attempts[i].kind = "connectWallet"}
Started         == {i \in DOMAIN attempts : attempts[i].kind # "none"}

C2_Log ==
  \A i \in ConnectAttempts :
    LET a == attempts[i]
    IN  /\ \A n \in Where(a.reqs, IsAccounts) :
             EnsuredBefore(a.reqs, n, DeclaredHex(a.chainKey))
        /\ a.ret = "false" => a.pc = "done" /\ Where(a.reqs, IsAccounts) = {}

\* a Connect click calls EnsureNetwork for the target selected at the click; the
\* step in which its EnsureNetwork fails leaves the stored account alone
C2_Step ==
  \A i \in DOMAIN attempts :
    /\ ( /\ Free(i)
         /\ attempts'[i] # attempts[i]
         /\ attempts'[i].kind = "connectWallet" )
       => /\ attempts'[i].chainKey = target
          /\ account' = account
          /\ Where(attempts'[i].reqs, IsAccounts) = {}
    /\ ( /\ attempts[i].kind = "connectWallet"
         /\ attempts[i].pc \in {"switch", "add"}
         /\ attempts'[i].ret = "false" )
       => /\ account' = account
          /\ attempts'[i].pc = "done"

\* C2: Connect issues eth_requestAccounts only after EnsureNetwork for the
\* selected target succeeded in the same attempt; when EnsureNetwork fails no
\* account-access request is issued and the stored account is unchanged.
C2_ConnectNetworkFirst == []C2_Log /\ [][C2_Step]_vars

\* a Connect attempt for mainnet whose switch failed with 4902 and whose add was
\* rejected: EnsureNetwork has failed and the attempt has returned
C2_Witness ==
  \E i \in ConnectAttempts :
    /\ attempts[i].ret = "false"
    /\ attempts[i].chainKey = "mainnet"
    /\ Len(attempts[i].reqs) = 2

(* --------------------------------- C3 ----------------------------------- *)
\* C3: in EnsureNetwork at most one switch request is issued; when it failed
\* with code 4902 exactly one add-chain request follows it, carrying the
\* network's chain id hex, display name, native currency, RPC URL list and
\* explorer URL; when it succeeded, failed with another code, or is still
\* pending, no add-chain request is issued.
C3_AddOnlyAfter4902 ==
  \A i \in Started :
    LET a    == attempts[i]
        sw   == Where(a.reqs, IsSwitch)
        adds == Where(a.reqs, IsAdd)
    IN  /\ Cardinality(sw) <= 1
        /\ \A n \in sw :
             IF a.reqs[n].res = "rejected" /\ a.reqs[n].code = 4902
             THEN /\ adds = {n + 1}
                  /\ a.reqs[n + 1].params = DeclaredProfile(a.chainKey)
             ELSE adds = {}
        /\ sw = {} => adds = {}

\* an attempt whose switch failed with 4902 and whose add request is in the log
C3_Witness ==
  \E i \in Started :
    /\ attempts[i].chainKey = "sepolia"
    /\ Len(attempts[i].reqs) >= 2
    /\ attempts[i].reqs[1].code = 4902
    /\ IsAdd(attempts[i].reqs[2])

(* --------------------------------- C4 ----------------------------------- *)
\* C4: with a provider present, the first provider request of EnsureNetwork(key)
\* is a switch request whose chain id is that network's declared hex string
\* ("0x1" for mainnet, "0xaa36a7" for sepolia), never the other network's.
C4_SwitchCarriesDeclaredHex ==
  \A i \in Started :
    LET a == attempts[i]
    IN  /\ (provider /\ a.ret # "none") => a.reqs # <<>>
        /\ a.reqs # <<>> =>
             /\ IsSwitch(a.reqs[1])
             /\ a.reqs[1].params.chainId = DeclaredHex(a.chainKey)
             /\ \A k \in ChainKeys \ {a.chainKey} :
                  a.reqs[1].params.chainId # DeclaredHex(k)

\* EnsureNetwork("mainnet") has issued its switch request
C4_Witness ==
  \E i \in Started :
    /\ attempts[i].chainKey = "mainnet"
    /\ attempts[i].reqs # <<>>
    /\ attempts[i].reqs[1].params.chainId = MAINNET_HEX

(* --------------------------------- C5 ----------------------------------- *)
\* a payload that is empty or shorter than 4 characters once trimmed
TooShort(b) == b = <<>> \/ Len(Trim(b)) < 4

\* the step issues no provider or signer request
NoRequestIssued ==
  \A i \in DOMAIN attempts :
    attempts'[i] = attempts[i] \/ attempts'[i].reqs = <<>>

\* C5 as stated: Deploy on an empty or too short payload issues no provider
\* request and sets the status to the corrective instruction
C5_Original ==
  [][(deployContract /\ TooShort(bytecode))
       => (NoRequestIssued /\ status' = Msg(ST_BAD_BYTECODE))]_vars

\* C5 amended: Deploy on an empty or too short payload issues no provider
\* request; the status becomes the corrective instruction when a provider is
\* present, and the "MetaMask requis." message when none is (the provider check
\* comes first)
C5_RejectsShortPayloadLocally ==
  [][(deployContract /\ TooShort(bytecode))
       => /\ NoRequestIssued
          /\ status' = IF provider THEN Msg(ST_BAD_BYTECODE)
                       ELSE Msg(ST_METAMASK_REQUIRED)]_vars

\* a Deploy of a payload of five characters, two once trimmed, was rejected locally
C5_Witness ==
  \E i \in DeployAttempts :
    /\ provider
    /\ Len(attempts[i].bytecode) >= 4
    /\ TooShort(attempts[i].bytecode)
    /\ attempts[i].pc = "done"
    /\ attempts[i].reqs = <<>>
    /\ status = Msg(ST_BAD_BYTECODE)

(* --------------------------------- C6 ----------------------------------- *)
\* C6: the data of every submitted transaction is the accepted payload with the
\* "0x" prefix: the payload itself when it starts with "0x", "0x" followed by the
\* payload otherwise; "60006000f3" is submitted as "0x60006000f3" and
\* "0x60006000f3" unchanged.
C6_DataCarriesPrefix ==
  \A i \in DeployAttempts :
    LET a == attempts[i]
        b == a.bytecode
    IN  \A n \in Where(a.reqs, IsSend) :
          LET data == a.reqs[n].params.data
          IN  /\ ~TooShort(b)
              /\ SubSeq(data, 1, 2) = <<"0", "x">>
              /\ data = b \/ data = <<"0", "x">> \o b
              /\ data = b <=> (Len(b) >= 2 /\ b[1] = "0" /\ b[2] = "x")
              /\ b = <<"6", "0", "0", "0", "6", "0", "0", "0", "f", "3">>
                   => data = <<"0", "x", "6", "0", "0", "0", "6", "0", "0", "0", "f", "3">>
              /\ b = <<"0", "x", "6", "0", "0", "0", "6", "0", "0", "0", "f", "3">>
                   => data = b

\* the payload "60006000f3" has been submitted
C6_Witness ==
  \E i \in DeployAttempts :
    /\ attempts[i].bytecode = <<"6", "0", "0", "0", "6", "0", "0", "0", "f", "3">>
    /\ Where(attempts[i].reqs, IsSend) # {}

(* --------------------------------- C7 ----------------------------------- *)
\* C7: when the confirmation of a Deploy attempt resolves with a receipt that
\* has a non-empty contract address, the stored contract address becomes that
\* address and the status contains it; when the receipt is absent or has no
\* contract address, the stored contract address is empty and the status is the
\* "confirmed, no contract address" message, not the error status.
C7_Step ==
  \A i \in DOMAIN attempts :
    LET after == attempts'[i].reqs
        last  == after[Len(after)]
    IN  ( /\ attempts[i].pc = "wait"
          /\ attempts'[i].pc = "done"
          /\ last.res = "ok" )
        => LET receipt == last.value[1]
           IN  IF receipt.present /\ receipt.contractAddress # ""
               THEN /\ contractAddress' = receipt.contractAddress
                    /\ status' = MsgWith(ST_DEPLOYED, receipt.contractAddress)
                    /\ attempts'[i].end = "tx-confirmed-with-address"
               ELSE /\ contractAddress' = ""
                    /\ status' = Msg(ST_NO_ADDRESS)
                    /\ status'.text # ST_ERROR
                    /\ attempts'[i].end = "tx-confirmed-no-address"

C7_ReceiptAddressReported == [][C7_Step]_vars

\* a confirmation without a contract address has been reported
C7_Witness ==
  \E i \in DeployAttempts :
    /\ attempts[i].end = "tx-confirmed-no-address"
    /\ status = Msg(ST_NO_ADDRESS)
    /\ contractAddress = ""
    /\ txHash # ""

(* --------------------------------- C8 ----------------------------------- *)
\* C8: the explorer base is the Sepolia explorer URL when the observed chain id
\* is 11155111, the Mainnet explorer URL when it is 1, and the selected target's
\* explorer URL for every other observed value (none, or an unknown chain id).
C8_ExplorerBase ==
  explorerBase =
    IF currentChainId = <<11155111>> THEN "https://sepolia.etherscan.io"
    ELSE IF currentChainId = <<1>> THEN "https://etherscan.io"
    ELSE IF target = "mainnet" THEN "https://etherscan.io"
    ELSE "https://sepolia.etherscan.io"

\* the wallet was observed on Sepolia while mainnet is the selected target
C8_Witness ==
  /\ currentChainId = <<11155111>>
  /\ target = "mainnet"
  /\ explorerBase = "https://sepolia.etherscan.io"

(* --------------------------------- C9 ----------------------------------- *)
\* C9: Reset empties payload, status, transaction hash and contract address in
\* one step, leaves account, target and observed chain id unchanged, and issues
\* no provider request.
C9_ResetFrame ==
  [][Reset => /\ bytecode' = <<>>
              /\ status' = NoStatus
              /\ txHash' = ""
              /\ contractAddress' = ""
              /\ account' = account
              /\ target' = target
              /\ currentChainId' = currentChainId
              /\ attempts' = attempts
              /\ walletChain' = walletChain]_vars

\* connected, mainnet selected, nothing in flight and every field of the form
\* empty: only a Reset after the connection leaves the status empty
C9_Witness ==
  /\ account # <<>>
  /\ target = "mainnet"
  /\ currentChainId # <<>>
  /\ bytecode = <<>>
  /\ status = NoStatus
  /\ txHash = ""
  /\ contractAddress = ""
  /\ \A i \in DOMAIN attempts : attempts[i].pc = "done"

(* --------------------------------- C10 ---------------------------------- *)
DisconnectFrame ==
  /\ target' = target
  /\ bytecode' = bytecode
  /\ txHash' = txHash
  /\ contractAddress' = contractAddress
  /\ attempts' = attempts
  /\ walletChain' = walletChain

\* C10 as stated: Disconnect empties the stored account and the status
C10_Original ==
  [][Disconnect => (account' = <<>> /\ status' = NoStatus /\ DisconnectFrame)]_vars

\* C10 amended: Disconnect clears the stored account and replaces the status by
\* the message "Deconnecte." (the status is not emptied); it issues no provider
\* request and leaves target, payload, transaction hash and contract address
\* unchanged.
C10_DisconnectLocal ==
  [][Disconnect => /\ account' = <<>>
                   /\ status' = Msg(ST_DISCONNECTED)
                   /\ status' # NoStatus
                   /\ DisconnectFrame]_vars

\* disconnected while a deployed transaction is on display
C10_Witness ==
  /\ account = <<>>
  /\ status = Msg(ST_DISCONNECTED)
  /\ txHash # ""

(* --------------------------------- C11 ---------------------------------- *)
\* this step settles the last request of attempt i, suspended at pc, as rejected
RejectedAt(i, pc) ==
  /\ attempts[i].pc = pc
  /\ Len(attempts'[i].reqs) >= Len(attempts[i].reqs)
  /\ attempts[i].reqs # <<>>
  /\ attempts[i].reqs[Len(attempts[i].reqs)].res = "pending"
  /\ attempts'[i].reqs[Len(attempts[i].reqs)].res = "rejected"

\* the texts a failure can carry: its message, or String(e) when it has none
FailureTexts == {"User rejected the request.", "[object Object]"}

\* C11: when the confirmation wait of a Deploy attempt that recorded its
\* transaction hash fails, the step only writes the status, an error message
\* "Erreur: " carrying the failure text: the stored transaction hash is left
\* as it is (non-empty if it was), and the contract address is not set.
C11_Step ==
  \A i \in DeployAttempts :
    RejectedAt(i, "wait") =>
      /\ status'.text = ST_ERROR
      /\ status'.arg \in FailureTexts
      /\ txHash' = txHash
      /\ (txHash = attempts[i].reqs[Len(attempts[i].reqs)].params.hash
            => txHash' # "")
      /\ contractAddress' = contractAddress
      /\ UNCHANGED <<account, bytecode, currentChainId, target>>
      /\ attempts'[i].pc = "done"
      /\ attempts'[i].end = "tx-failed"

C11_WaitFailureKeepsHash == [][C11_Step]_vars

\* the wait of a Deploy attempt has failed: error status, its hash still
\* stored, no contract address
C11_Witness ==
  \E i \in DeployAttempts :
    /\ attempts[i].end = "tx-failed"
    /\ status.text = ST_ERROR
    /\ txHash = HASHES[i]
    /\ contractAddress = ""

(* --------------------------------- C12 ---------------------------------- *)
\* this step resolves the account-access request of Connect attempt i, issued
\* after a successful EnsureNetwork of that attempt, and stores its first account
ConnectStores(i) ==
  LET a == attempts[i]
      n == Len(a.reqs)
  IN  /\ a.kind = "connectWallet"
      /\ a.pc = "accounts"
      /\ IsAccounts(a.reqs[n])
      /\ a.reqs[n].res = "pending"
      /\ EnsuredBefore(a.reqs, n, DeclaredHex(a.chainKey))
      /\ attempts'[i].reqs[n].res = "ok"
      /\ attempts'[i].end = "connected"
      /\ account' = <<attempts'[i].reqs[n].value[1][1]>>

C12_Step ==
  /\ account' # account /\ account' # <<>> => \E i \in DOMAIN attempts : ConnectStores(i)
  /\ account' # account /\ account' = <<>> => Disconnect
  /\ \/ \E k \in ChainKeys : SetTarget(k)
     \/ \E b \in PayloadInputs : SetBytecode(b)
     \/ fillTestBytecode \/ Reset \/ ClickSwitch \/ deployContract \/ connectWallet
     \/ ObserveChain \/ ChainChangedDelivered
     \/ \E i \in DOMAIN attempts : attempts[i].kind # "connectWallet" /\ attempts'[i] # attempts[i]
     => account' = account

\* C12: the stored account is empty at start and becomes non-empty only in the
\* step where the account-access request of a Connect attempt, issued after
\* that attempt's EnsureNetwork succeeded, resolves; EnsureNetwork, Deploy,
\* FillTestPayload, Reset, SetTarget and chain-change notifications never
\* change the account.
C12_AccountOnlyFromConnect == (account = <<>>) /\ [][C12_Step]_vars

\* an account is stored, and the Connect attempt that stored it is on record
C12_Witness ==
  \E i \in ConnectAttempts :
    /\ attempts[i].end = "connected"
    /\ account # <<>>
    /\ status = Msg(ST_CONNECTED)

(* --------------------------------- C13 ---------------------------------- *)
\* this step settles the pending request of attempt i as rejected
RejectedNow(i) ==
  \E pc \in {"switch", "add", "accounts", "signer", "send", "wait"} : RejectedAt(i, pc)

\* the rejection settled in this step carries code 4902 on a switch request
Rejected4902(i) ==
  /\ RejectedAt(i, "switch")
  /\ attempts'[i].reqs[Len(attempts[i].reqs)].code = 4902

\* the status a handler writes for a rejection at pc
FailureStatus(pc, s) ==
  CASE pc = "switch"   -> s = Msg(ST_SWITCH_REFUSED)
    [] pc = "add"      -> s = Msg(ST_ADD_REFUSED)
    [] pc = "accounts" -> s.text = ST_CONNECT_ERROR /\ s.arg \in FailureTexts
    [] OTHER           -> s.text = ST_ERROR /\ s.arg \in FailureTexts

\* the ways a handler ends after a rejection it caught
CaughtEnds ==
  {"switch-refused", "add-refused", "network-failed", "connect-error",
   "signer-failed", "send-failed", "tx-failed"}

\* the startup query of the chain observer is rejected in this step
QueryRejectedNow == chainQuery.st = "pending" /\ chainQuery'.st = "done"

\* C13 as stated: every rejected request, the switch included whatever its
\* code, makes the handler write a non-empty failure status
C13_Original ==
  [][\A i \in Started :
       RejectedNow(i) => status'.text # "" /\ FailureStatus(attempts[i].pc, status')]_vars

\* C13 amended: no handler ends in an uncaught failure.  A rejected startup
\* query is swallowed without any write.  A rejected switch with code 4902
\* writes no status and is followed by the add request of the same handler.
\* Every other rejection (switch, add, account access, signer creation,
\* submission, confirmation wait) ends the handler in that step, normally, with
\* a non-empty status message for that failure.
C13_Step ==
  /\ QueryRejectedNow => UNCHANGED <<ui, attempts, phase, listener>>
  /\ \A i \in Started :
       RejectedNow(i) =>
         IF Rejected4902(i)
         THEN /\ status' = status
              /\ attempts'[i].pc = "add"
              /\ IsAdd(attempts'[i].reqs[Len(attempts'[i].reqs)])
         ELSE /\ attempts'[i].pc = "done"
              /\ attempts'[i].end \in CaughtEnds
              /\ attempts'[i].ret \in {"false", "true"}
              /\ attempts[i].kind = "ensureNetwork" => attempts'[i].ret = "false"
              /\ status'.text # ""
              /\ FailureStatus(attempts[i].pc, status')

C13_NoUncaughtFailure == [][C13_Step]_vars

\* the startup query was rejected and swallowed, and a handler whose switch
\* failed with 4902 has ended on the refusal of its add request
C13_Witness ==
  /\ chainQuery.st = "done"
  /\ currentChainId = <<>>
  /\ \E i \in Started :
       /\ attempts[i].end \in {"add-refused", "network-failed"}
       /\ Where(attempts[i].reqs, IsAdd) # {}
       /\ status = Msg(ST_ADD_REFUSED)

(* --------------------------------- C14 ---------------------------------- *)
\* the state of the Deploy state machine an attempt record is in
DeployState(a) ==
  CASE a.pc \in {"switch", "add"}  -> "network-checking"
    [] a.pc \in {"signer", "send"} -> "payload-submitting"
    [] a.pc = "wait"               -> "tx-pending"
    [] a.pc = "done" /\ a.end \in {"no-provider", "invalid-input"} -> "rejected-locally"
    [] a.pc = "done" /\ a.end = "network-failed" -> "network-failed"
    [] a.pc = "done" /\ a.end \in {"signer-failed", "send-failed", "tx-failed"} -> "tx-failed"
    [] a.pc = "done" /\ a.end = "tx-confirmed-with-address" -> "tx-confirmed-with-address"
    [] a.pc = "done" /\ a.end = "tx-confirmed-no-address" -> "tx-confirmed-no-address"
    [] OTHER -> "idle"

DeployTerminals ==
  {"rejected-locally", "network-failed", "tx-failed",
   "tx-confirmed-with-address", "tx-confirmed-no-address"}

\* the transitions of the state machine as stated
StatedEdges ==
  { <<"network-checking", "network-checking">>,
    <<"network-checking", "network-failed">>,
    <<"network-checking", "payload-submitting">>,
    <<"payload-submitting", "payload-submitting">>,
    <<"payload-submitting", "tx-pending">>,
    <<"tx-pending", "tx-confirmed-with-address">>,
    <<"tx-pending", "tx-confirmed-no-address">>,
    <<"tx-pending", "tx-failed">> }

\* the transitions the handler makes: a failure while submitting ends the attempt
CodeEdges == StatedEdges \cup {<<"payload-submitting", "tx-failed">>}

\* a click starts a new handler in a free slot
NewHandler == ClickSwitch \/ connectWallet \/ deployContract

\* the Deploy attempt in slot i moves along one of the edges, or is a new
\* attempt that is rejected locally or starts checking the network
FollowsEdges(i, edges) ==
  attempts'[i] # attempts[i] /\ attempts'[i].kind = "deployContract" =>
    IF Free(i)
    THEN /\ deployContract
         /\ DeployState(attempts'[i]) \in {"rejected-locally", "network-checking"}
    ELSE /\ attempts[i].kind = "deployContract"
         /\ <<DeployState(attempts[i]), DeployState(attempts'[i])>> \in edges

\* the Deploy attempt in slot i reaches a terminal state in this step
ReachesTerminal(i) ==
  /\ attempts'[i] # attempts[i]
  /\ attempts'[i].kind = "deployContract"
  /\ attempts'[i].pc = "done"

\* what holds of every step, for the edge set given
DeployStep(edges) ==
  \A i \in DOMAIN attempts :
    /\ FollowsEdges(i, edges)
    /\ ReachesTerminal(i) => /\ status'.text # ""
                             /\ DeployState(attempts'[i]) \in DeployTerminals
    /\ attempts[i].pc = "done" /\ attempts'[i] # attempts[i] => NewHandler

\* a Deploy attempt in flight reaches a terminal state
DeployTerminates ==
  \A i \in 1..MaxInFlight :
    (attempts[i].kind = "deployContract" /\ ~Free(i))
      ~> (attempts[i].kind = "deployContract" /\ attempts[i].pc = "done"
          /\ DeployState(attempts[i]) \in DeployTerminals)

\* C14 as stated: the attempt leaves payload-submitting only towards tx-pending
C14_Original == [][DeployStep(StatedEdges)]_vars /\ DeployTerminates

\* C14 amended: a Deploy attempt follows idle -> network-checking ->
\* (network-failed | payload-submitting) -> (tx-pending | tx-failed) ->
\* (tx-confirmed-with-address | tx-confirmed-no-address | tx-failed): a
\* rejection of the signer or of the submission ends the attempt in tx-failed
\* without passing through tx-pending.  Provided every request is settled,
\* each attempt reaches a terminal state, the status written on reaching it is
\* non-empty, and a terminated attempt issues no further request: its record
\* changes only when a new click takes its slot.
C14_DeployTerminates == [][DeployStep(CodeEdges)]_vars /\ DeployTerminates

\* a Deploy attempt ended in tx-failed while submitting, before any hash
C14_Witness ==
  \E i \in DeployAttempts :
    /\ attempts[i].end \in {"signer-failed", "send-failed"}
    /\ Where(attempts[i].reqs, IsSwitch) # {}
    /\ status.text = ST_ERROR
    /\ txHash = ""

(* --------------------------------- C15 ---------------------------------- *)
\* the number a notified chain id stands for
NotifiedId(hex) ==
  IF hex = SEPOLIA_HEX THEN <<11155111>>
  ELSE IF hex = MAINNET_HEX THEN <<1>>
  ELSE <<137>>

\* a chain-change notification is delivered in this step
Delivered == notifs # <<>> /\ notifs' = Tail(notifs)

C15_Step ==
  /\ phase = "created" /\ phase' = "mounted" /\ ~provider =>
       /\ chainQuery' = chainQuery /\ chainQuery.st = "none"
       /\ listener' = listener /\ ~listener
       /\ status' = status
  /\ phase = "created" /\ phase' = "mounted" /\ provider =>
       /\ chainQuery'.st = "pending"
       /\ listener'
  /\ Delivered /\ phase = "mounted" => currentChainId' = NotifiedId(Head(notifs))
  /\ phase = "mounted" /\ phase' = "unmounted" => ~listener'
  /\ Delivered /\ phase = "unmounted" => currentChainId' = currentChainId

\* C15: without a provider the startup issues no request, registers no
\* listener and sets no status, and it stays so; with a provider every
\* chain-change notification delivered between mount and teardown sets the
\* observed chain id to the notified value; teardown deregisters the listener,
\* and a notification delivered after it leaves the observed chain id unchanged.
C15_ObserveChain ==
  /\ [](~provider => chainQuery.st = "none" /\ ~listener /\ notifs = <<>>)
  /\ [](phase = "unmounted" => ~listener)
  /\ [][C15_Step]_vars

\* a notification was delivered while mounted, before the startup query was
\* answered, and set the observed chain id to the chain the wallet moved to
C15_Witness ==
  /\ provider
  /\ chainQuery.st = "pending"
  /\ walletChanges = 1
  /\ notifs = <<>>
  /\ currentChainId = NotifiedId(walletChain)

(* --------------------------------- C16 ---------------------------------- *)
\* the built-in test payload, character by character
TEST_PAYLOAD_TEXT == <<"0", "x", "6", "0", "0", "0", "6", "0", "0", "0", "f", "3">>

\* C16: FillTestPayload sets the payload to exactly "0x60006000f3", issues no
\* provider request, and leaves account, target, observed chain id,
\* transaction hash and contract address unchanged.
C16_FillFrame ==
  [][fillTestBytecode => /\ bytecode' = TEST_PAYLOAD_TEXT
                         /\ attempts' = attempts
                         /\ walletChain' = walletChain
                         /\ account' = account
                         /\ target' = target
                         /\ currentChainId' = currentChainId
                         /\ txHash' = txHash
                         /\ contractAddress' = contractAddress]_vars

\* the test payload was filled in while an account, a transaction hash and a
\* contract address were stored
C16_Witness ==
  /\ bytecode = TEST_PAYLOAD_TEXT
  /\ status = Msg(ST_TEST_FILLED)
  /\ account # <<>>
  /\ txHash # ""
  /\ contractAddress # ""

(* --------------------------------- C17 ---------------------------------- *)
\* C17: whenever a Deploy attempt has submitted its transaction, the chain the
\* wallet was on when it took the submission is Sepolia, whatever ran between
\* that attempt's successful EnsureNetwork("sepolia") and its submission.
C17_SubmitsOnSepolia ==
  \A i \in DeployAttempts :
    attempts[i].onChain # <<>> => attempts[i].onChain = <<SEPOLIA_HEX>>

(* --------------------------------- C18 ---------------------------------- *)
\* what the request log of a handler says about its EnsureNetwork
SwitchOk(reqs)      == reqs # <<>> /\ IsSwitch(reqs[1]) /\ reqs[1].res = "ok"
SwitchUnknown(reqs) == reqs # <<>> /\ IsSwitch(reqs[1]) /\ reqs[1].res = "rejected"
                                   /\ reqs[1].code = 4902
SwitchRefused(reqs) == reqs # <<>> /\ IsSwitch(reqs[1]) /\ reqs[1].res = "rejected"
                                   /\ reqs[1].code # 4902
AddOk(reqs)      == Len(reqs) >= 2 /\ IsAdd(reqs[2]) /\ reqs[2].res = "ok"
AddRefused(reqs) == Len(reqs) >= 2 /\ IsAdd(reqs[2]) /\ reqs[2].res = "rejected"

\* the result of EnsureNetwork is the one its requests determine
C18_Result ==
  \A i \in Started :
    LET a == attempts[i]
        r == a.reqs
    IN  /\ a.ret = "true" <=> SwitchOk(r) \/ (SwitchUnknown(r) /\ AddOk(r))
        /\ a.ret = "false" <=>
             \/ a.kind = "ensureNetwork" /\ ~provider /\ r = <<>>
             \/ SwitchRefused(r)
             \/ SwitchUnknown(r) /\ AddRefused(r)
        /\ a.ret = "false" => a.pc = "done"

\* the status written in the step in which EnsureNetwork returns
C18_Step ==
  \A i \in DOMAIN attempts :
    LET a == attempts'[i]
        r == a.reqs
        name == DeclaredProfile(a.chainKey).chainName
    IN  attempts'[i] # attempts[i] /\ a.ret \in {"true", "false"}
        /\ (Free(i) \/ attempts[i].ret = "pending") =>
          /\ a.ret = "true" /\ SwitchOk(r) => status' = MsgWith(ST_SWITCHED, name)
          /\ a.ret = "true" /\ ~SwitchOk(r) => status' = MsgWith(ST_ADDED, name)
          /\ a.ret = "false" /\ r = <<>> => status' = Msg(ST_NO_METAMASK)
          /\ a.ret = "false" /\ SwitchRefused(r) => status' = Msg(ST_SWITCH_REFUSED)
          /\ a.ret = "false" /\ AddRefused(r) => status' = Msg(ST_ADD_REFUSED)
          /\ status'.text # ""
          /\ a.ret = "true" => status'.arg = name /\ name # ""

\* the three failure messages differ from each other
C18_Distinct ==
  /\ ST_NO_METAMASK # ST_SWITCH_REFUSED
  /\ ST_NO_METAMASK # ST_ADD_REFUSED
  /\ ST_SWITCH_REFUSED # ST_ADD_REFUSED

\* C18: EnsureNetwork returns success exactly when the switch succeeded, or
\* failed with 4902 and the add succeeded; it returns failure without a
\* provider, when the switch fails with another code, and when the add fails;
\* the three failures set three different status messages, and each success
\* sets a status naming the network.
C18_EnsureNetworkResult == [](C18_Result /\ C18_Distinct) /\ [][C18_Step]_vars

\* EnsureNetwork("sepolia") of a Deploy attempt succeeded by adding the chain
\* while the selected target is mainnet
C18_Witness ==
  \E i \in DeployAttempts :
    /\ attempts[i].ret = "true"
    /\ SwitchUnknown(attempts[i].reqs)
    /\ AddOk(attempts[i].reqs)
    /\ target = "mainnet"
    /\ status = MsgWith(ST_ADDED, "Sepolia Testnet")

(* --------------------------------- C19 ---------------------------------- *)
\* the transaction whose hash is h has a receipt with contract address addr
ReceiptOf(h, addr) == \E n \in DOMAIN HASHES : h = HASHES[n] /\ addr = ADDRS[n]

\* C19: in every reachable state, overlapping Deploy attempts included, a
\* non-empty stored contract address is the address from the receipt of the
\* transaction whose hash is the stored transaction hash.
C19_AddressMatchesHash ==
  contractAddress # "" => ReceiptOf(txHash, contractAddress)

(* --------------------------------- C20 ---------------------------------- *)
\* the answer to the startup query is delivered to the page in this step
AnswerDelivered == chainQuery.st = "answered" /\ chainQuery'.st = "done"

\* the page is mounted on a provider, the startup query was answered and its
\* answer delivered, and no notification is pending
Settled ==
  /\ provider
  /\ phase = "mounted"
  /\ chainQuery.st = "done"
  /\ currentChainId # <<>>
  /\ notifs = <<>>

\* C20 as stated: once the startup query has been answered and no
\* notification is pending, the observed chain id is the wallet's actual one
C20_Original == Settled => currentChainId = NotifiedId(walletChain)

C20_Step ==
  /\ AnswerDelivered => currentChainId' = NotifiedId(chainQuery.val)
  /\ Delivered /\ phase = "mounted" => currentChainId' = NotifiedId(Head(notifs))
  /\ ~AnswerDelivered /\ ~Delivered => currentChainId' = currentChainId
  /\ AnswerDelivered /\ chainQuery.val = walletChain /\ notifs = <<>> /\ phase = "mounted"
       => Settled' /\ currentChainId' = NotifiedId(walletChain')
  /\ Delivered /\ Len(notifs) = 1 /\ Head(notifs) = walletChain /\ phase = "mounted"
       => currentChainId' = NotifiedId(walletChain')

\* C20 amended: with a provider, the observed chain id is the value carried by
\* the message delivered last, startup answer or chain-change notification
\* (last writer wins).  It equals the wallet's actual chain id when that
\* message carried the wallet's current chain; an answer the wallet gave
\* before a chain change and that is delivered after the notification of that
\* change overwrites the newer value with the older one.
C20_LastWriterWins == [][C20_Step]_vars

\* the startup answer, delivered after the notification of a later chain
\* change, has replaced the newer chain id by the older one
C20_Witness ==
  /\ Settled
  /\ walletChanges = 1
  /\ currentChainId # NotifiedId(walletChain)

====
